---------------------------- MODULE Spec2Model ----------------------------
(***************************************************************************)
(* CATE trust layer (hardened variant, src/src/lib.rs): trust             *)
(* configuration, co-located Ed25519 verification cross-check, replay     *)
(* ledger and per-asset risk registry, as a state machine.                *)
(*                                                                         *)
(* Byte strings ([u8; 32], [u8; 64], instruction data) are sequences of   *)
(* naturals below 256.  Rust indexes from 0, TLA+ sequences from 1: the   *)
(* operators Byte and Slice take the Rust (0-based) offsets.              *)
(***************************************************************************)
EXTENDS Integers, Sequences, FiniteSets, TLC

(***************************************************************************)
(* Bounds of the model.                                                    *)
(***************************************************************************)
\* clock advances in one behaviour
MaxTicks == 1
\* successful signer rotations in one behaviour
MaxRotations == 2

(***************************************************************************)
(* Program constants.                                                      *)
(***************************************************************************)
ED25519_SIG_LEN == 64
ED25519_PUBKEY_LEN == 32
ED25519_INSTRUCTION_LEN == 2
SIGNATURE_OFFSETS_LEN == 14
\* message_data_size accepted by the cross-check (lib.rs:237)
DIGEST_LEN == 32
\* used_decisions.max_size = 1000 (lib.rs:29)
MAX_SIZE == 1000
\* retention window of mark_used (lib.rs:328)
RETENTION == 3600
\* timestamp tolerance of update_risk_status (lib.rs:72)
PAST_TOLERANCE == 300
FUTURE_TOLERANCE == 60
\* range checks of update_risk_status (lib.rs:64-67)
MAX_ASSET_ID_LEN == 16
MAX_RISK_SCORE == 100
MAX_CONFIDENCE_RATIO == 10000
\* a u16 instruction index naming "this instruction" to the Ed25519 program
THIS_INSTRUCTION == 65535

(***************************************************************************)
(* Bytes.                                                                  *)
(***************************************************************************)
Byte(data, i) == data[i + 1]

\* &data[start..end]
Slice(data, start, end) == SubSeq(data, start + 1, end)

\* u16::from_le_bytes([b0, b1])
u16_from_le_bytes(b0, b1) == b0 + 256 * b1

\* the two little-endian bytes of a u16
u16_to_le_bytes(n) == << n % 256, (n \div 256) % 256 >>

\* a byte string of n copies of b
Fill(n, b) == [i \in 1..n |-> b]


(***************************************************************************)
(* Ed25519SignatureOffsets::from_bytes: seven little-endian u16 fields.    *)
(* The caller always passes a 14-byte slice, so the length check of        *)
(* from_bytes cannot fail there.                                           *)
(***************************************************************************)
from_bytes(bytes) ==
    [ signature_offset             |-> u16_from_le_bytes(Byte(bytes, 0), Byte(bytes, 1)),
      signature_instruction_index  |-> u16_from_le_bytes(Byte(bytes, 2), Byte(bytes, 3)),
      public_key_offset            |-> u16_from_le_bytes(Byte(bytes, 4), Byte(bytes, 5)),
      public_key_instruction_index |-> u16_from_le_bytes(Byte(bytes, 6), Byte(bytes, 7)),
      message_data_offset          |-> u16_from_le_bytes(Byte(bytes, 8), Byte(bytes, 9)),
      message_data_size            |-> u16_from_le_bytes(Byte(bytes, 10), Byte(bytes, 11)),
      message_instruction_index    |-> u16_from_le_bytes(Byte(bytes, 12), Byte(bytes, 13)) ]

\* the descriptor of slot i (0-based) of an Ed25519 instruction's data
SlotOffsets(data, i) ==
    LET offset_start == ED25519_INSTRUCTION_LEN + SIGNATURE_OFFSETS_LEN * i
    IN  from_bytes(Slice(data, offset_start, offset_start + SIGNATURE_OFFSETS_LEN))

(***************************************************************************)
(* secure_compare: false on unequal lengths; otherwise result |= x ^ y    *)
(* over every position (no early exit), and the answer is result == 0.     *)
(* Bit k of x ^ y is set when bit k of x and of y differ, and bit k of    *)
(* the accumulated OR is set when that happens at some position.           *)
(***************************************************************************)
Bit(x, k) == (x \div (2 ^ k)) % 2

\* the u8 accumulator after the loop, as its eight bits
XorAccumulate(a, b) ==
    [k \in 0..7 |-> IF \E i \in 1..Len(a) : Bit(a[i], k) # Bit(b[i], k) THEN 1 ELSE 0]

\* a comparison that leaves the last byte out
CompareAllButLast(a, b) ==
    IF Len(a) # Len(b) THEN FALSE
    ELSE \A i \in 1..(Len(a) - 1) : a[i] = b[i]

secure_compare(a, b) ==
    IF Len(a) # Len(b) THEN FALSE
    ELSE XorAccumulate(a, b) = [k \in 0..7 |-> 0]

(***************************************************************************)
(* Indexing.  &data[start..end] panics unless start <= end <= data.len(),  *)
(* and the panic aborts the program: InRange is the condition under which  *)
(* the slice is taken, and "Panic" stands for the abort.                   *)
(***************************************************************************)
InRange(data, start, end) == start <= end /\ end <= Len(data)

\* an end computed in the width of the u16 offset, wrapping
RangeEndU16(start, len) == (start + len) % (256 * 256)

\* start.checked_add(len): start is a u16 widened to usize and len at most
\* a u16, so the sum fits and checked_add is never None
RangeEnd(start, len) == start + len

(***************************************************************************)
(* The loop of verify_ed25519_instruction from slot i on: the first slot   *)
(* whose three slices equal the expected values ends it with Ok, a slot    *)
(* with a range past the data or a message size other than 32 ends it     *)
(* with that error, and running out of slots is a failed verification.     *)
(***************************************************************************)
RECURSIVE CheckSlots(_, _, _, _, _, _)
CheckSlots(data, i, num_signatures, expected_pubkey, expected_message, expected_signature) ==
    IF i >= num_signatures THEN "SignatureVerificationFailed"
    ELSE
      LET offset_start == ED25519_INSTRUCTION_LEN + SIGNATURE_OFFSETS_LEN * i
      IN
      IF ~InRange(data, offset_start, offset_start + SIGNATURE_OFFSETS_LEN) THEN "Panic"
      ELSE
      LET offsets      == SlotOffsets(data, i)
          sig_start    == offsets.signature_offset
          sig_end      == RangeEnd(sig_start, ED25519_SIG_LEN)
          pubkey_start == offsets.public_key_offset
          pubkey_end   == RangeEnd(pubkey_start, ED25519_PUBKEY_LEN)
          msg_start    == offsets.message_data_offset
          msg_size     == offsets.message_data_size
          msg_end      == RangeEnd(msg_start, msg_size)
      IN  IF ~(sig_end <= Len(data)) THEN "SignatureOffsetOverflow"
          ELSE IF ~(pubkey_end <= Len(data)) THEN "PubkeyOffsetOverflow"
          ELSE IF msg_size # DIGEST_LEN THEN "InvalidMessageSize"
          ELSE IF ~(msg_end <= Len(data)) THEN "MessageOffsetOverflow"
          ELSE IF ~(/\ InRange(data, pubkey_start, pubkey_end)
                    /\ InRange(data, sig_start, sig_end)
                    /\ InRange(data, msg_start, msg_end))
               THEN "Panic"
          ELSE IF /\ secure_compare(Slice(data, pubkey_start, pubkey_end), expected_pubkey)
                  /\ secure_compare(Slice(data, sig_start, sig_end), expected_signature)
                  /\ secure_compare(Slice(data, msg_start, msg_end), expected_message)
               THEN "Ok"
          ELSE CheckSlots(data, i + 1, num_signatures,
                          expected_pubkey, expected_message, expected_signature)

\* the header checks, then a look at slot 0 alone
CheckDataFirstSlot(data, expected_pubkey, expected_message, expected_signature) ==
    IF Len(data) < ED25519_INSTRUCTION_LEN THEN "InvalidEd25519Data"
    ELSE IF Byte(data, 0) < 1 THEN "InvalidEd25519Data"
    ELSE IF Byte(data, 1) # 0 THEN "InvalidEd25519Data"
    ELSE IF Len(data) < ED25519_INSTRUCTION_LEN + SIGNATURE_OFFSETS_LEN * Byte(data, 0)
         THEN "InvalidEd25519Data"
    ELSE CheckSlots(data, 0, 1, expected_pubkey, expected_message, expected_signature)

(***************************************************************************)
(* verify_ed25519_instruction from `let data` on: the header checks, then  *)
(* the loop.                                                               *)
(***************************************************************************)
CheckData(data, expected_pubkey, expected_message, expected_signature) ==
    IF Len(data) < ED25519_INSTRUCTION_LEN THEN "InvalidEd25519Data"
    ELSE IF Byte(data, 0) < 1 THEN "InvalidEd25519Data"
    ELSE IF Byte(data, 1) # 0 THEN "InvalidEd25519Data"
    ELSE IF Len(data) < ED25519_INSTRUCTION_LEN + SIGNATURE_OFFSETS_LEN * Byte(data, 0)
         THEN "InvalidEd25519Data"
    ELSE CheckSlots(data, 0, Byte(data, 0),
                    expected_pubkey, expected_message, expected_signature)

(***************************************************************************)
(* verify_ed25519_instruction.  tx is the instructions sysvar: the index   *)
(* of the running instruction and the instructions of the transaction      *)
(* (instruction k, 0-based, is tx.instructions[k + 1]).                    *)
(***************************************************************************)
verify_ed25519_instruction(tx, expected_pubkey, expected_message, expected_signature) ==
    IF tx.current_index = 0 THEN "MissingEd25519Instruction"
    ELSE
      LET ed25519_ix == tx.instructions[tx.current_index]
          data       == ed25519_ix.data
      IN  IF ed25519_ix.program_id # "Ed25519SigVerify" THEN "InvalidEd25519Program"
          ELSE CheckData(data, expected_pubkey, expected_message, expected_signature)

(***************************************************************************)
(* The basic variant, verify_ed25519_signature                             *)
(* (contracts/programs/workspace/src/lib.rs).  After the checks on the     *)
(* length and on num_signatures it reads ix_data[2] to ix_data[13] by      *)
(* index, which aborts the program when the data has fewer than 14 bytes;  *)
(* it looks at slot 0 alone, has no padding check, compares with `==` and  *)
(* reports each mismatch under its own error.                              *)
(***************************************************************************)
CheckDataBasic(ix_data, pubkey, message, signature) ==
    IF ~(Len(ix_data) >= ED25519_INSTRUCTION_LEN) THEN "InvalidEd25519Data"
    ELSE IF ~(Byte(ix_data, 0) >= 1) THEN "InvalidEd25519Data"
    \* ix_data[13] is the highest index read for the offsets
    ELSE IF ~(Len(ix_data) > 13) THEN "Panic"
    ELSE
      LET sig_offset    == u16_from_le_bytes(Byte(ix_data, 2), Byte(ix_data, 3))
          pubkey_offset == u16_from_le_bytes(Byte(ix_data, 6), Byte(ix_data, 7))
          msg_offset    == u16_from_le_bytes(Byte(ix_data, 10), Byte(ix_data, 11))
          msg_size      == u16_from_le_bytes(Byte(ix_data, 12), Byte(ix_data, 13))
      IN  IF ~(Len(ix_data) >= sig_offset + ED25519_SIG_LEN) THEN "InvalidEd25519Data"
          ELSE IF ~(Len(ix_data) >= pubkey_offset + ED25519_PUBKEY_LEN)
               THEN "InvalidEd25519Data"
          ELSE IF ~(Len(ix_data) >= msg_offset + msg_size) THEN "InvalidEd25519Data"
          ELSE IF Slice(ix_data, pubkey_offset, pubkey_offset + ED25519_PUBKEY_LEN) # pubkey
               THEN "SignerMismatch"
          ELSE IF Slice(ix_data, sig_offset, sig_offset + ED25519_SIG_LEN) # signature
               THEN "SignatureMismatch"
          ELSE IF ~(/\ msg_size = DIGEST_LEN
                    /\ Slice(ix_data, msg_offset, msg_offset + msg_size) = message)
               THEN "MessageMismatch"
          ELSE "Ok"

verify_ed25519_signature(tx, pubkey, message, signature) ==
    IF tx.current_index = 0 THEN "MissingEd25519Instruction"
    ELSE IF tx.instructions[tx.current_index].program_id # "Ed25519SigVerify"
         THEN "InvalidEd25519Program"
    ELSE CheckDataBasic(tx.instructions[tx.current_index].data,
                        pubkey, message, signature)


(***************************************************************************)
(* The external signature-verification facility (the Ed25519 program).    *)
(* It runs as the instruction before the publish, in the same atomic       *)
(* transaction, and the transaction reaches the publish only if it         *)
(* accepted.  For each slot it reads the signature, the public key and     *)
(* the message from the data of the instruction the slot's                 *)
(* *_instruction_index names (65535: its own data) and verifies that       *)
(* triple.  Sign stands for the signer's deterministic Ed25519 signature.  *)
(***************************************************************************)
Sign(pubkey, message) == pubkey \o message

ValidSignature(pubkey, message, signature) == signature = Sign(pubkey, message)

\* the data the facility reads for instruction index idx, from instruction j (1-based)
IndexedData(tx, j, idx) ==
    IF idx = THIS_INSTRUCTION THEN tx.instructions[j].data
    ELSE IF idx + 1 <= Len(tx.instructions) THEN tx.instructions[idx + 1].data
    ELSE << >>

\* the slots the facility processes in instruction j
FacilitySlots(tx, j) ==
    LET data == tx.instructions[j].data
    IN  IF Len(data) < ED25519_INSTRUCTION_LEN THEN {}
        ELSE IF Len(data) < ED25519_INSTRUCTION_LEN + SIGNATURE_OFFSETS_LEN * Byte(data, 0)
             THEN {}
        ELSE 0..(Byte(data, 0) - 1)

\* slot i of instruction j has its three ranges inside the data they name
FacilityInBounds(tx, j, i) ==
    LET o == SlotOffsets(tx.instructions[j].data, i)
    IN  /\ o.signature_offset + ED25519_SIG_LEN
             <= Len(IndexedData(tx, j, o.signature_instruction_index))
        /\ o.public_key_offset + ED25519_PUBKEY_LEN
             <= Len(IndexedData(tx, j, o.public_key_instruction_index))
        /\ o.message_data_offset + o.message_data_size
             <= Len(IndexedData(tx, j, o.message_instruction_index))

\* the <<public key, message, signature>> the facility verifies for slot i
FacilityTriple(tx, j, i) ==
    LET o == SlotOffsets(tx.instructions[j].data, i)
    IN  << Slice(IndexedData(tx, j, o.public_key_instruction_index),
                 o.public_key_offset, o.public_key_offset + ED25519_PUBKEY_LEN),
           Slice(IndexedData(tx, j, o.message_instruction_index),
                 o.message_data_offset, o.message_data_offset + o.message_data_size),
           Slice(IndexedData(tx, j, o.signature_instruction_index),
                 o.signature_offset, o.signature_offset + ED25519_SIG_LEN) >>

\* the facility accepts instruction j of tx
FacilityAccepts(tx, j) ==
    LET data == tx.instructions[j].data
    IN  /\ Len(data) >= ED25519_INSTRUCTION_LEN
        /\ Len(data) >= ED25519_INSTRUCTION_LEN + SIGNATURE_OFFSETS_LEN * Byte(data, 0)
        /\ \A i \in FacilitySlots(tx, j) :
              /\ FacilityInBounds(tx, j, i)
              /\ LET t == FacilityTriple(tx, j, i)
                 IN  ValidSignature(t[1], t[2], t[3])

\* every instruction of the transaction before the running one was executed
\* and succeeded; the Ed25519 instructions among them were accepted
TransactionReaches(tx) ==
    \A j \in 1..tx.current_index :
        tx.instructions[j].program_id = "Ed25519SigVerify" => FacilityAccepts(tx, j)

\* the triples the step before the running instruction authenticated
Authenticated(tx) ==
    IF tx.current_index = 0 THEN {}
    ELSE IF tx.instructions[tx.current_index].program_id # "Ed25519SigVerify" THEN {}
    ELSE { FacilityTriple(tx, tx.current_index, i) : i \in FacilitySlots(tx, tx.current_index) }


(***************************************************************************)
(* u64 values, kept at their width: four 16-bit limbs, least significant  *)
(* first.                                                                  *)
(***************************************************************************)
LIMB == 256 * 256

U64_ZERO == << 0, 0, 0, 0 >>

U64_MAX == << LIMB - 1, LIMB - 1, LIMB - 1, LIMB - 1 >>

\* u64::checked_add(self, 1): Some(sum), or None when the carry leaves the
\* most significant limb
RECURSIVE AddOneFrom(_, _)
AddOneFrom(n, k) ==
    IF k > Len(n) THEN [is_some |-> FALSE, value |-> n]
    ELSE IF n[k] + 1 < LIMB THEN [is_some |-> TRUE, value |-> [n EXCEPT ![k] = n[k] + 1]]
    ELSE AddOneFrom([n EXCEPT ![k] = 0], k + 1)

checked_add_1(n) == AddOneFrom(n, 1)

\* a < b on u64 values
RECURSIVE LessFrom(_, _, _)
LessFrom(a, b, k) ==
    IF k = 0 THEN FALSE
    ELSE IF a[k] # b[k] THEN a[k] < b[k]
    ELSE LessFrom(a, b, k - 1)

u64_less(a, b) == LessFrom(a, b, Len(a))

(***************************************************************************)
(* Accounts.  An account that was never created is NoAccount.              *)
(***************************************************************************)
NoAccount == [exists |-> FALSE]

\* UsedDecisions::LEN and the space the ledger account is created with
UsedDecisions_LEN == 1 + 4 + (34 * 1000)

UsedDecisions_SPACE == 8 + UsedDecisions_LEN

\* the Borsh size of a UsedDecisions account holding n records: the 8-byte
\* discriminator, bump (u8), the Vec length (u32), n records of a
\* 32-byte hash and an i64 timestamp, max_size (u16)
SerializedSize(n) == 8 + 1 + 4 + n * (32 + 8) + 2

\* a ledger in which nothing is ever found
NeverUsed(self, hash) == FALSE

\* UsedDecisions::is_used
is_used(self, hash) == \E i \in 1..Len(self.decisions) : self.decisions[i].hash = hash

\* a retention test with its operands the other way round
RetainedSwapped(d, current_time) == d.timestamp - current_time < RETENTION

\* the closure of retain in mark_used: the entries kept
Retained(d, current_time) == current_time - d.timestamp < RETENTION

(***************************************************************************)
(* UsedDecisions::mark_used: the purge, the capacity check, the push.      *)
(* The result carries the error and the ledger as the call left it in      *)
(* memory (purged even when the capacity check fails).                     *)
(***************************************************************************)
\* a mark_used that checks the capacity before it purges
MarkUsedCheckFirst(self, hash, timestamp) ==
    LET current_time == timestamp
        kept == SelectSeq(self.decisions, LAMBDA d : Retained(d, current_time))
    IN  IF ~((Len(self.decisions) % LIMB) < self.max_size)
        THEN [err |-> "DecisionHistoryFull", self |-> self]
        ELSE [err |-> "Ok",
              self |-> [self EXCEPT !.decisions =
                            Append(kept, [hash |-> hash, timestamp |-> timestamp])]]

mark_used(self, hash, timestamp) ==
    LET current_time == timestamp
        kept == SelectSeq(self.decisions, LAMBDA d : Retained(d, current_time))
    IN  IF ~((Len(kept) % LIMB) < self.max_size)
        THEN [err |-> "DecisionHistoryFull", self |-> [self EXCEPT !.decisions = kept]]
        ELSE [err |-> "Ok",
              self |-> [self EXCEPT !.decisions =
                            Append(kept, [hash |-> hash, timestamp |-> timestamp])]]


\* a signer check that lets every signer through
AnySigner(config, signer_pubkey) == TRUE

\* signer_pubkey == config.trusted_signer, the condition of the signer check
TrustedSigner(config, signer_pubkey) == signer_pubkey = config.trusted_signer

(***************************************************************************)
(* update_risk_status, the handler body.  req holds the instruction's      *)
(* arguments, current_time is Clock::get()?.unix_timestamp, and verified   *)
(* is what verify_ed25519_instruction returns for the instructions sysvar  *)
(* and the claimed public key, digest and signature (looked at only once   *)
(* the checks before it have passed).  The result carries the error and    *)
(* the two `mut` accounts as the handler left them in memory.              *)
(***************************************************************************)
asset_id_bytes(asset_id) ==
    [i \in 1..MAX_ASSET_ID_LEN |-> IF i <= Len(asset_id) THEN asset_id[i] ELSE 0]

\* a window that leaves out its two edges
TimestampInsideWindow(timestamp, current_time) ==
    /\ timestamp > current_time - PAST_TOLERANCE
    /\ timestamp < current_time + FUTURE_TOLERANCE

\* timestamp >= current_time - 300 && timestamp <= current_time + 60
TimestampInWindow(timestamp, current_time) ==
    /\ timestamp >= current_time - PAST_TOLERANCE
    /\ timestamp <= current_time + FUTURE_TOLERANCE

\* the checks with the cross-check made before the freshness check
ChecksCrossCheckFirst(config, used_decisions, req, current_time, verified) ==
    IF ~(Len(req.asset_id) <= MAX_ASSET_ID_LEN) THEN "AssetIdTooLong"
    ELSE IF Len(req.asset_id) = 0 THEN "AssetIdEmpty"
    ELSE IF ~(req.risk_score <= MAX_RISK_SCORE) THEN "InvalidRiskScore"
    ELSE IF ~(req.confidence_ratio <= MAX_CONFIDENCE_RATIO) THEN "InvalidConfidenceRatio"
    ELSE IF ~TimestampInWindow(req.timestamp, current_time) THEN "InvalidTimestamp"
    ELSE IF ~TrustedSigner(config, req.signer_pubkey) THEN "InvalidSigner"
    ELSE IF verified # "Ok" THEN verified
    ELSE IF is_used(used_decisions, req.decision_hash) THEN "DecisionAlreadyUsed"
    ELSE "Ok"

\* the checks of update_risk_status before it writes anything, in their
\* order: the first that fails gives the error
\* the checks without those on the ranges of the score, the ratio and the
\* timestamp
ChecksWithoutRanges(config, used_decisions, req, current_time, verified) ==
    IF ~(Len(req.asset_id) <= MAX_ASSET_ID_LEN) THEN "AssetIdTooLong"
    ELSE IF Len(req.asset_id) = 0 THEN "AssetIdEmpty"
    ELSE IF ~TrustedSigner(config, req.signer_pubkey) THEN "InvalidSigner"
    ELSE IF is_used(used_decisions, req.decision_hash) THEN "DecisionAlreadyUsed"
    ELSE verified

Checks(config, used_decisions, req, current_time, verified) ==
    IF ~(Len(req.asset_id) <= MAX_ASSET_ID_LEN) THEN "AssetIdTooLong"
    ELSE IF Len(req.asset_id) = 0 THEN "AssetIdEmpty"
    ELSE IF ~(req.risk_score <= MAX_RISK_SCORE) THEN "InvalidRiskScore"
    ELSE IF ~(req.confidence_ratio <= MAX_CONFIDENCE_RATIO) THEN "InvalidConfidenceRatio"
    ELSE IF ~TimestampInWindow(req.timestamp, current_time) THEN "InvalidTimestamp"
    ELSE IF ~TrustedSigner(config, req.signer_pubkey) THEN "InvalidSigner"
    ELSE IF is_used(used_decisions, req.decision_hash) THEN "DecisionAlreadyUsed"
    ELSE verified

\* a write that keeps the provenance of a record that is already there
WriteVerdictOnly(asset_risk_status, req, current_time) ==
    [ exists           |-> TRUE,
      asset_id         |-> asset_id_bytes(req.asset_id),
      risk_score       |-> req.risk_score,
      is_blocked       |-> req.is_blocked,
      last_updated     |-> current_time,
      timestamp        |-> req.timestamp,
      confidence_ratio |-> req.confidence_ratio,
      publisher_count  |-> req.publisher_count,
      decision_hash    |-> IF asset_risk_status.exists
                           THEN asset_risk_status.decision_hash ELSE req.decision_hash,
      signature        |-> IF asset_risk_status.exists
                           THEN asset_risk_status.signature ELSE req.signature,
      signer_pubkey    |-> IF asset_risk_status.exists
                           THEN asset_risk_status.signer_pubkey ELSE req.signer_pubkey ]

\* the assignments to asset_risk: every field takes the argument of the
\* call, last_updated the clock, whatever the record held
WriteRecord(asset_risk_status, req, current_time) ==
    [ exists           |-> TRUE,
      asset_id         |-> asset_id_bytes(req.asset_id),
      risk_score       |-> req.risk_score,
      is_blocked       |-> req.is_blocked,
      last_updated     |-> current_time,
      timestamp        |-> req.timestamp,
      confidence_ratio |-> req.confidence_ratio,
      publisher_count  |-> req.publisher_count,
      decision_hash    |-> req.decision_hash,
      signature        |-> req.signature,
      signer_pubkey    |-> req.signer_pubkey ]

update_risk_status(config, used_decisions, asset_risk_status, req, current_time, verified) ==
    LET fail(e) == [err |-> e, used_decisions |-> used_decisions,
                    asset_risk_status |-> asset_risk_status]
        checked == Checks(config, used_decisions, req, current_time, verified)
    IN
      IF checked # "Ok" THEN fail(checked)
      ELSE
        LET marked == mark_used(used_decisions, req.decision_hash, req.timestamp)
        IN
        IF marked.err # "Ok"
        THEN [err |-> marked.err, used_decisions |-> marked.self,
              asset_risk_status |-> asset_risk_status]
        ELSE [err |-> "Ok",
              used_decisions |-> marked.self,
              asset_risk_status |-> WriteRecord(asset_risk_status, req, current_time)]

(***************************************************************************)
(* The account constraints of UpdateRiskStatus, checked before the         *)
(* handler runs: config must exist, be initialized and name the caller as  *)
(* its authority; the ledger must exist.                                   *)
(***************************************************************************)
\* the constraints without the one on the authority
UpdateRiskStatusAccountsOpen(config, used_decisions, caller) ==
    IF ~config.exists THEN "AccountNotInitialized"
    ELSE IF ~config.is_initialized THEN "NotInitialized"
    ELSE IF ~used_decisions.exists THEN "AccountNotInitialized"
    ELSE "Ok"

UpdateRiskStatusAccounts(config, used_decisions, caller) ==
    IF ~config.exists THEN "AccountNotInitialized"
    ELSE IF ~config.is_initialized THEN "NotInitialized"
    ELSE IF ~(config.authority = caller) THEN "Unauthorized"
    ELSE IF ~used_decisions.exists THEN "AccountNotInitialized"
    ELSE "Ok"

(***************************************************************************)
(* Leaving the instruction: a `mut` account is serialized back into the    *)
(* space it was created with, which fails when it no longer fits.          *)
(***************************************************************************)
ExitUsedDecisions(used_decisions) ==
    IF SerializedSize(Len(used_decisions.decisions)) <= UsedDecisions_SPACE
    THEN "Ok" ELSE "AccountDidNotSerialize"

(***************************************************************************)
(* An instruction that returns an error aborts the transaction: nothing    *)
(* it wrote is kept.  Only Ok persists the accounts it left.               *)
(***************************************************************************)
\* what the accounts would hold if a failed instruction's writes were kept
KeepWritten(err, written, before) == written

Commit(err, written, before) == IF err = "Ok" THEN written ELSE before

(***************************************************************************)
(* verify_decision, the handler body.                                      *)
(***************************************************************************)
verify_decision(config, req, current_time, verified) ==
    IF ~TrustedSigner(config, req.signer_pubkey) THEN "InvalidSigner"
    ELSE IF verified # "Ok" THEN verified
    ELSE IF ~(req.timestamp >= current_time - PAST_TOLERANCE) THEN "DecisionExpired"
    ELSE "Ok"

\* the account constraints of VerifyDecision
VerifyDecisionAccounts(config) ==
    IF ~config.exists THEN "AccountNotInitialized"
    ELSE IF ~config.is_initialized THEN "NotInitialized"
    ELSE "Ok"

(***************************************************************************)
(* update_trusted_signer: the account constraints of UpdateTrustedSigner,  *)
(* then the handler.                                                       *)
(***************************************************************************)
UpdateTrustedSignerAccounts(config, caller) ==
    IF ~config.exists THEN "AccountNotInitialized"
    ELSE IF ~config.is_initialized THEN "NotInitialized"
    ELSE IF ~(config.authority = caller) THEN "Unauthorized"
    ELSE "Ok"

\* config.nonce.checked_add(1).unwrap_or(0)
NextNonce(nonce) ==
    LET sum == checked_add_1(nonce)
    IN  IF sum.is_some THEN sum.value ELSE U64_ZERO

update_trusted_signer(config, caller, new_signer) ==
    IF ~(config.authority = caller) THEN [err |-> "Unauthorized", config |-> config]
    ELSE [err |-> "Ok",
          config |-> [config EXCEPT !.trusted_signer = new_signer,
                                    !.nonce = NextNonce(config.nonce)]]

(***************************************************************************)
(* initialize_config: both accounts are created by `init`, which fails on  *)
(* an account that already exists.                                         *)
(***************************************************************************)
\* the check `init_if_needed` would make: an existing account is taken
InitIfNeeded(config, used_decisions) == "Ok"

InitializeConfigAccounts(config, used_decisions) ==
    IF config.exists \/ used_decisions.exists THEN "AccountAlreadyInUse" ELSE "Ok"

initialize_config(caller, trusted_signer) ==
    [ config |-> [ exists         |-> TRUE,
                   authority      |-> caller,
                   is_initialized |-> TRUE,
                   trusted_signer |-> trusted_signer,
                   nonce          |-> U64_ZERO ],
      used_decisions |-> [ exists    |-> TRUE,
                           decisions |-> << >>,
                           max_size  |-> MAX_SIZE ] ]


(***************************************************************************)
(* The basic variant (contracts/programs/workspace/src/lib.rs).  Its       *)
(* update_risk_status takes no timestamp and has no ledger: the input      *)
(* checks, the signer check and verify_ed25519_signature, then the writes  *)
(* to the record, which has no timestamp field.                            *)
(***************************************************************************)
initialize_config_basic(caller, trusted_signer) ==
    [ exists         |-> TRUE,
      authority      |-> caller,
      is_initialized |-> TRUE,
      trusted_signer |-> trusted_signer ]

UpdateRiskStatusAccountsBasic(config, caller) ==
    IF ~config.exists THEN "AccountNotInitialized"
    ELSE IF ~config.is_initialized THEN "NotInitialized"
    ELSE IF ~(config.authority = caller) THEN "Unauthorized"
    ELSE "Ok"

update_risk_status_basic(config, asset_risk_status, req, current_time, verified) ==
    LET fail(e) == [err |-> e, asset_risk_status |-> asset_risk_status]
    IN
      IF ~(Len(req.asset_id) <= MAX_ASSET_ID_LEN) THEN fail("AssetIdTooLong")
      ELSE IF ~(Len(req.asset_id) > 0) THEN fail("AssetIdEmpty")
      ELSE IF ~(req.risk_score <= MAX_RISK_SCORE) THEN fail("InvalidRiskScore")
      ELSE IF ~(req.confidence_ratio <= MAX_CONFIDENCE_RATIO)
           THEN fail("InvalidConfidenceRatio")
      ELSE IF ~(req.signer_pubkey = config.trusted_signer) THEN fail("InvalidSigner")
      ELSE IF verified # "Ok" THEN fail(verified)
      ELSE [err |-> "Ok",
            asset_risk_status |->
              [ exists           |-> TRUE,
                asset_id         |-> asset_id_bytes(req.asset_id),
                risk_score       |-> req.risk_score,
                is_blocked       |-> req.is_blocked,
                last_updated     |-> current_time,
                confidence_ratio |-> req.confidence_ratio,
                publisher_count  |-> req.publisher_count,
                decision_hash    |-> req.decision_hash,
                signature        |-> req.signature,
                signer_pubkey    |-> req.signer_pubkey ]]


(***************************************************************************)
(* The inputs the operations are driven with.                              *)
(***************************************************************************)
\* wallets that submit transactions
ADMIN == Fill(32, 10)
MALLORY == Fill(32, 11)
Callers == { ADMIN, MALLORY }

\* signing keys of the off-chain engine
SIGNER_A == Fill(32, 161)
SIGNER_B == Fill(32, 178)
Signers == { SIGNER_A, SIGNER_B }

\* 32-byte decision digests; two of them differ in their first two bytes only
Digest(n) == << n % 256, (n \div 256) % 256 >> \o Fill(30, 208)
Digests == { Digest(1), Digest(2) }

\* a signature the signer never produced
FORGED == Fill(64, 238)

\* asset identifiers as byte strings: "BTC", "ETH", the empty string and a
\* 17-byte one
BTC == << 66, 84, 67 >>
ETH == << 69, 84, 72 >>
AssetIds == { BTC, ETH }
AssetIdInputs == AssetIds \cup { << >>, Fill(17, 88) }


\* the seven u16 fields of a slot descriptor, serialized
OffsetsBytes(o) ==
    u16_to_le_bytes(o.signature_offset) \o u16_to_le_bytes(o.signature_instruction_index)
    \o u16_to_le_bytes(o.public_key_offset) \o u16_to_le_bytes(o.public_key_instruction_index)
    \o u16_to_le_bytes(o.message_data_offset) \o u16_to_le_bytes(o.message_data_size)
    \o u16_to_le_bytes(o.message_instruction_index)

\* Ed25519 instruction data with one slot: header, descriptor, then the
\* public key at 16, the signature at 48 and the message at 112; idx is
\* the instruction index the three ranges name
SingleSlotData(pubkey, message, signature, idx) ==
    << 1, 0 >>
    \o OffsetsBytes([ signature_offset             |-> 48,
                      signature_instruction_index  |-> idx,
                      public_key_offset            |-> 16,
                      public_key_instruction_index |-> idx,
                      message_data_offset          |-> 112,
                      message_data_size            |-> 32,
                      message_instruction_index    |-> idx ])
    \o pubkey \o signature \o message

Ed25519Instruction(data) == [program_id |-> "Ed25519SigVerify", data |-> data]

\* a decision the engine signed that is not the one a request claims
UNRELATED == Digest(0)

(***************************************************************************)
(* The transaction a request arrives in, by kind:                          *)
(*   none      the publish is the first instruction                        *)
(*   other     the instruction before it is not the Ed25519 program        *)
(*   genuine   the Ed25519 program verified the claimed triple             *)
(*   unrelated the Ed25519 program verified the signer's signature on      *)
(*             another digest                                              *)
(*   redirect  the Ed25519 instruction carries the claimed triple in its   *)
(*             own data, and its descriptor names instruction 0, which     *)
(*             holds a triple signed by the submitter's own key            *)
(***************************************************************************)
TxKinds == { "none", "other", "genuine", "unrelated", "redirect" }

Transaction(kind, pubkey, message, signature) ==
    CASE kind = "none" ->
           [current_index |-> 0, instructions |-> << >>]
      [] kind = "other" ->
           [current_index |-> 1,
            instructions |-> << [program_id |-> "System", data |-> << >>] >>]
      [] kind = "genuine" ->
           [current_index |-> 1,
            instructions |->
              << Ed25519Instruction(SingleSlotData(pubkey, message, signature,
                                                   THIS_INSTRUCTION)) >>]
      [] kind = "unrelated" ->
           [current_index |-> 1,
            instructions |->
              << Ed25519Instruction(SingleSlotData(pubkey, UNRELATED,
                                                   Sign(pubkey, UNRELATED),
                                                   THIS_INSTRUCTION)) >>]
      [] kind = "redirect" ->
           [current_index |-> 2,
            instructions |->
              << [program_id |-> "Memo",
                  data |-> Fill(16, 0) \o MALLORY \o Sign(MALLORY, UNRELATED) \o UNRELATED],
                 Ed25519Instruction(SingleSlotData(pubkey, message, signature, 0)) >>]

\* offsets of decisionTimestamp from the clock: the two edges of the
\* accepted window and the first value outside each
EARLIEST == 0 - PAST_TOLERANCE
LATEST == FUTURE_TOLERANCE
TOO_EARLY == EARLIEST - 1
TOO_LATE == LATEST + 1

\* the verdict a digest stands for
VerdictOf(digest) ==
    IF (Byte(digest, 0) % 2) = 1
    THEN [risk_score |-> 80, is_blocked |-> TRUE, confidence_ratio |-> 9000,
          publisher_count |-> 5]
    ELSE [risk_score |-> 25, is_blocked |-> FALSE, confidence_ratio |-> 9500,
          publisher_count |-> 3]

\* the signature a transaction of a kind carries: the signer's own, or for
\* a redirected verification step one the signer never made
SignatureFor(kind, signer, digest) ==
    IF kind = "redirect" THEN FORGED ELSE Sign(signer, digest)

\* what a client submits: the arguments, with the timestamp as an offset
\* from the clock at submission, and the kind of transaction around them
Submission(caller, asset_id, verdict, offset, digest, signer, kind) ==
    [ caller           |-> caller,
      asset_id         |-> asset_id,
      risk_score       |-> verdict.risk_score,
      is_blocked       |-> verdict.is_blocked,
      confidence_ratio |-> verdict.confidence_ratio,
      publisher_count  |-> verdict.publisher_count,
      offset           |-> offset,
      decision_hash    |-> digest,
      signature        |-> SignatureFor(kind, signer, digest),
      signer_pubkey    |-> signer,
      tx_kind          |-> kind ]

TransactionOf(req) ==
    Transaction(req.tx_kind, req.signer_pubkey, req.decision_hash, req.signature)

\* the authority's submissions with a genuine verification step, at and
\* just outside both edges of the timestamp window
GenuineSubmissions ==
    { Submission(ADMIN, p[1], VerdictOf(d), p[2], d, s, "genuine") :
        p \in { << BTC, EARLIEST >>, << ETH, LATEST >>,
                << BTC, TOO_EARLY >>, << ETH, TOO_LATE >> },
        d \in Digests, s \in Signers }

\* submissions whose verification step is missing, foreign or about
\* another digest
UnprovenSubmissions ==
    { Submission(ADMIN, BTC, VerdictOf(Digest(1)), EARLIEST, Digest(1), s, k) :
        s \in Signers, k \in { "none", "other", "unrelated" } }

\* submissions with a forged signature behind a redirected verification step
RedirectedSubmissions ==
    { Submission(ADMIN, BTC, VerdictOf(Digest(2)), EARLIEST,
                 Digest(2), s, "redirect") : s \in Signers }

\* submissions with one field out of range, or from another caller
IrregularSubmissions ==
    LET d == Digest(1)
        base(c, a, v) == Submission(c, a, v, EARLIEST, d, SIGNER_A, "genuine")
    IN  { base(MALLORY, BTC, VerdictOf(d)),
          base(ADMIN, << >>, VerdictOf(d)),
          base(ADMIN, Fill(17, 88), VerdictOf(d)),
          base(ADMIN, BTC, [VerdictOf(d) EXCEPT !.risk_score = 101]),
          base(ADMIN, BTC, [VerdictOf(d) EXCEPT !.confidence_ratio = 10001]) }

\* submissions outside the timestamp window that fail another check too:
\* a risk score out of range, or no verification step
StaleSubmissions ==
    LET d == Digest(1)
    IN  { Submission(ADMIN, BTC, [VerdictOf(d) EXCEPT !.risk_score = 101],
                     TOO_LATE, d, SIGNER_A, "genuine"),
          Submission(ADMIN, BTC, VerdictOf(d), TOO_EARLY, d, SIGNER_A, "none") }

\* only transactions whose earlier instructions succeeded reach the program
Submissions ==
    { r \in GenuineSubmissions \cup UnprovenSubmissions
            \cup RedirectedSubmissions \cup IrregularSubmissions
            \cup StaleSubmissions :
        TransactionReaches(TransactionOf(r)) }

\* verify_decision takes no verdict and has no caller constraint
VerifySubmissions ==
    { r \in Submissions :
        /\ r \in GenuineSubmissions \cup UnprovenSubmissions \cup RedirectedSubmissions
        /\ r.tx_kind \in { "genuine", "none", "redirect" }
        /\ r.tx_kind = "genuine" => r.decision_hash = Digest(1) }

\* the arguments the program receives for a submission made at current_time
RequestAt(sub, current_time) ==
    [ caller           |-> sub.caller,
      asset_id         |-> sub.asset_id,
      risk_score       |-> sub.risk_score,
      is_blocked       |-> sub.is_blocked,
      confidence_ratio |-> sub.confidence_ratio,
      publisher_count  |-> sub.publisher_count,
      timestamp        |-> current_time + sub.offset,
      decision_hash    |-> sub.decision_hash,
      signature        |-> sub.signature,
      signer_pubkey    |-> sub.signer_pubkey,
      tx_kind          |-> sub.tx_kind ]

\* verify_ed25519_instruction on the transaction of each submission
Verification ==
    [ r \in Submissions |->
        verify_ed25519_instruction(TransactionOf(r), r.signer_pubkey,
                                   r.decision_hash, r.signature) ]

\* clock advances
ClockSteps == { RETENTION - 1, RETENTION, RETENTION + 1 }


(***************************************************************************)
(* State.                                                                  *)
(*   config             the TrustConfig account                            *)
(*   used_decisions     the replay ledger account                          *)
(*   asset_risk_status  the risk record account of each asset identifier   *)
(*   now                the clock                                          *)
(*   last               the last instruction submitted: its name, its      *)
(*                      arguments and the error it returned ("Ok": none)   *)
(*   accepted           of the digests the submissions carry, those some   *)
(*                      publish has been accepted with                     *)
(*   ticks, rotations   clock advances and rotations so far                *)
(***************************************************************************)
VARIABLES config, used_decisions, asset_risk_status, now, last, accepted,
          ticks, rotations, inflight, basic

vars == << config, used_decisions, asset_risk_status, now, last, accepted,
           ticks, rotations, inflight, basic >>

\* the accounts of the basic variant of the program where it is not deployed
NotDeployed ==
    [config |-> NoAccount,
     asset_risk_status |-> [a \in AssetIdInputs |-> NoAccount],
     err |-> "Ok"]

accounts == << config, used_decisions, asset_risk_status >>

Init ==
    /\ config = NoAccount
    /\ used_decisions = NoAccount
    /\ asset_risk_status = [a \in AssetIdInputs |-> NoAccount]
    /\ now = 0
    /\ last = [op |-> "none", err |-> "Ok"]
    /\ accepted = {}
    /\ ticks = 0
    /\ rotations = 0
    /\ basic = NotDeployed
    /\ inflight = << >>

(***************************************************************************)
(* A rejected instruction aborts its transaction and leaves every account  *)
(* as it was, and verify_decision is given no writable account: last then  *)
(* shows the outcome, and whatever is submitted next meets the accounts of *)
(* the state before it.  Those continuations are explored from that state, *)
(* so a state showing a rejection or a verify_decision is not continued a  *)
(* second time: Ready guards every instruction.                            *)
(***************************************************************************)
Ready == last.err = "Ok" /\ last.op # "verify_decision"

\* bootstrap
InitializeConfig(caller, trusted_signer) ==
    LET err == InitializeConfigAccounts(config, used_decisions)
        created == initialize_config(caller, trusted_signer)
    IN  /\ Ready
        /\ config' = IF err = "Ok" THEN created.config ELSE config
        /\ used_decisions' = IF err = "Ok" THEN created.used_decisions ELSE used_decisions
        /\ last' = [op |-> "initialize_config", err |-> err, caller |-> caller,
                    trusted_signer |-> trusted_signer]
        /\ UNCHANGED << asset_risk_status, now, accepted, ticks, rotations, inflight, basic >>

\* rotateSigner
UpdateTrustedSigner(caller, new_signer) ==
    /\ Ready
    /\ rotations < MaxRotations
    /\ LET accts == UpdateTrustedSignerAccounts(config, caller)
           out == update_trusted_signer(config, caller, new_signer)
           err == IF accts # "Ok" THEN accts ELSE out.err
       IN  /\ config' = IF err = "Ok" THEN out.config ELSE config
           /\ rotations' = IF err = "Ok" THEN rotations + 1 ELSE rotations
           /\ last' = [op |-> "update_trusted_signer", err |-> err, caller |-> caller,
                       new_signer |-> new_signer]
    /\ UNCHANGED << used_decisions, asset_risk_status, now, accepted, ticks, inflight, basic >>

\* what update_risk_status returns for a submission and leaves in the two
\* accounts: the account constraints, the handler, then the write-back on exit
UpdateRiskStatusOutcome(sub) ==
    LET req == RequestAt(sub, now)
        accts == UpdateRiskStatusAccounts(config, used_decisions, req.caller)
    IN  IF accts # "Ok"
        THEN [err |-> accts, used_decisions |-> used_decisions,
              asset_risk_status |-> asset_risk_status[req.asset_id]]
        ELSE
          LET out == update_risk_status(config, used_decisions,
                                        asset_risk_status[req.asset_id], req, now,
                                        Verification[sub])
          IN  IF out.err # "Ok" THEN out
              ELSE [out EXCEPT !.err = ExitUsedDecisions(out.used_decisions)]

\* publishRiskDecision
UpdateRiskStatus(sub) ==
    LET out == UpdateRiskStatusOutcome(sub)
    IN  /\ Ready
        /\ used_decisions' = Commit(out.err, out.used_decisions, used_decisions)
        /\ asset_risk_status' =
             [asset_risk_status EXCEPT ![sub.asset_id] =
                 Commit(out.err, out.asset_risk_status, @)]
        /\ accepted' = IF out.err = "Ok" THEN accepted \cup {sub.decision_hash}
                       ELSE accepted
        /\ last' = [op |-> "update_risk_status", err |-> out.err,
                    req |-> RequestAt(sub, now)]
        /\ UNCHANGED << config, now, ticks, rotations, inflight, basic >>

\* what verify_decision returns for a submission
VerifyDecisionOutcome(sub) ==
    LET accts == VerifyDecisionAccounts(config)
    IN  IF accts # "Ok" THEN accts
        ELSE verify_decision(config, RequestAt(sub, now), now, Verification[sub])

\* a verify_decision that consumes the digest it has verified
VerifyDecisionConsuming(sub) ==
    LET err == VerifyDecisionOutcome(sub)
        req == RequestAt(sub, now)
    IN  /\ Ready
        /\ used_decisions' =
             IF err = "Ok"
             THEN mark_used(used_decisions, req.decision_hash, req.timestamp).self
             ELSE used_decisions
        /\ last' = [op |-> "verify_decision", err |-> err, req |-> req]
        /\ UNCHANGED << config, asset_risk_status, now, accepted, ticks, rotations,
                        inflight, basic >>

\* verifyDecisionOnly
VerifyDecision(sub) ==
    /\ Ready
    /\ last' = [op |-> "verify_decision", err |-> VerifyDecisionOutcome(sub),
                req |-> RequestAt(sub, now)]
    /\ UNCHANGED << config, used_decisions, asset_risk_status, now, accepted,
                    ticks, rotations, inflight, basic >>

\* the clock moves on
Tick(step) ==
    /\ Ready
    /\ ticks < MaxTicks
    /\ now' = now + step
    /\ ticks' = ticks + 1
    /\ last' = [op |-> "tick", err |-> "Ok"]
    /\ UNCHANGED << config, used_decisions, asset_risk_status, accepted, rotations,
                    inflight, basic >>

Next ==
    \/ \E caller \in Callers, s \in Signers : InitializeConfig(caller, s)
    \/ \E caller \in Callers, s \in Signers : UpdateTrustedSigner(caller, s)
    \/ \E sub \in Submissions : UpdateRiskStatus(sub)
    \/ \E sub \in VerifySubmissions : VerifyDecision(sub)
    \/ \E step \in ClockSteps : Tick(step)

Spec == Init /\ [][Next]_vars


(***************************************************************************)
(* A deployment that has been running: the signer has been rotated until   *)
(* the nonce is one short of the largest u64, and publishes for BTC at the *)
(* start of the clock have filled the ledger account to one record short   *)
(* of what its space holds.  Digests 3, 4, ... are the ones already        *)
(* consumed.                                                               *)
(***************************************************************************)
\* the number of records that fit the space of the ledger account
RecordsThatFit == (UsedDecisions_SPACE - SerializedSize(0)) \div (32 + 8)

FilledCount == RecordsThatFit - 1

\* n records of digests 3, 4, ..., consumed at the start of the clock
Filled(n) == [k \in 1..n |-> [hash |-> Digest(k + 2), timestamp |-> EARLIEST]]

FilledLedger == Filled(FilledCount)

\* the last of the publishes that filled the ledger
LastFilling ==
    RequestAt(Submission(ADMIN, BTC, VerdictOf(Digest(FilledCount + 2)), EARLIEST,
                         Digest(FilledCount + 2), SIGNER_A, "genuine"), 0)

InitRunning ==
    /\ config = [initialize_config(ADMIN, SIGNER_A).config
                    EXCEPT !.nonce = [U64_MAX EXCEPT ![1] = LIMB - 2]]
    /\ used_decisions = [initialize_config(ADMIN, SIGNER_A).used_decisions
                            EXCEPT !.decisions = FilledLedger]
    /\ asset_risk_status =
         [a \in AssetIdInputs |->
            IF a = BTC
            THEN update_risk_status(config, used_decisions, NoAccount,
                                    LastFilling, 0, "Ok").asset_risk_status
            ELSE NoAccount]
    /\ now = 0
    /\ last = [op |-> "none", err |-> "Ok"]
    /\ accepted = {}
    /\ ticks = 0
    /\ rotations = 0
    /\ basic = NotDeployed
    /\ inflight = << >>

SpecRunning == InitRunning /\ [][Next]_vars


(***************************************************************************)
(* The replay ledger on its own: mark_used applied to a ledger in memory,  *)
(* empty or two records short of max_size, with digests is_used does not   *)
(* find (the caller's check) and timestamps around the retention window.   *)
(* The ledger is kept as mark_used leaves it; last names the call.         *)
(***************************************************************************)
ConsumeDigests == Digests \cup { UNRELATED }

ConsumeTimes == { EARLIEST } \cup { EARLIEST + step : step \in ClockSteps }

InitLedger ==
    /\ config = NoAccount
    /\ used_decisions \in
         { [initialize_config(ADMIN, SIGNER_A).used_decisions
               EXCEPT !.decisions = Filled(n)] : n \in { 0, MAX_SIZE - 2 } }
    /\ asset_risk_status = [a \in AssetIdInputs |-> NoAccount]
    /\ now = 0
    /\ last = [op |-> "none", err |-> "Ok"]
    /\ accepted = {}
    /\ ticks = 0
    /\ rotations = 0
    /\ basic = NotDeployed
    /\ inflight = << >>

\* consume
MarkUsed(hash, timestamp) ==
    /\ ~is_used(used_decisions, hash)
    /\ LET out == mark_used(used_decisions, hash, timestamp)
       IN  /\ used_decisions' = out.self
           /\ last' = [op |-> "mark_used", err |-> out.err, hash |-> hash,
                       timestamp |-> timestamp,
                       found |-> Len(used_decisions.decisions)]
    /\ UNCHANGED << config, asset_risk_status, now, accepted, ticks, rotations, inflight, basic >>

NextLedger == \E hash \in ConsumeDigests, timestamp \in ConsumeTimes : MarkUsed(hash, timestamp)

SpecLedger == InitLedger /\ [][NextLedger]_vars


(***************************************************************************)
(* The cross-check on its own: verify_ed25519_instruction applied to the   *)
(* data of the instruction before it and to a claimed triple.              *)
(***************************************************************************)
\* a slot descriptor whose ranges lie in the instruction's own data
Desc(signature_offset, public_key_offset, message_data_offset, message_data_size) ==
    [ signature_offset             |-> signature_offset,
      signature_instruction_index  |-> THIS_INSTRUCTION,
      public_key_offset            |-> public_key_offset,
      public_key_instruction_index |-> THIS_INSTRUCTION,
      message_data_offset          |-> message_data_offset,
      message_data_size            |-> message_data_size,
      message_instruction_index    |-> THIS_INSTRUCTION ]

RECURSIVE Descriptors(_)
Descriptors(descs) ==
    IF descs = << >> THEN << >>
    ELSE OffsetsBytes(Head(descs)) \o Descriptors(Tail(descs))

\* header, descriptors, body
SlotsData(num_signatures, padding, descs, body) ==
    << num_signatures, padding >> \o Descriptors(descs) \o body

\* a triple laid out as public key, signature, message
TripleBytes(t) == t.pubkey \o t.signature \o t.message

TripleOf(pubkey, message) ==
    [pubkey |-> pubkey, message |-> message, signature |-> Sign(pubkey, message)]

CLAIMED == TripleOf(SIGNER_A, Digest(1))

OTHER_TRIPLE == TripleOf(SIGNER_B, Digest(2))

\* bytes with the lowest, or the highest, bit of byte i (1-based) flipped
FlipLow(bytes, i) ==
    [bytes EXCEPT ![i] = IF @ % 2 = 0 THEN @ + 1 ELSE @ - 1]

FlipHigh(bytes, i) == [bytes EXCEPT ![i] = (@ + 128) % 256]

\* the claimed triple, and the triples that differ from it in one bit of
\* the first or of the last byte of one of the three values
Claims ==
    { CLAIMED }
    \cup { [CLAIMED EXCEPT !.pubkey = FlipLow(@, i)] : i \in { 1, ED25519_PUBKEY_LEN } }
    \cup { [CLAIMED EXCEPT !.signature = FlipHigh(@, i)] : i \in { 1, ED25519_SIG_LEN } }
    \cup { [CLAIMED EXCEPT !.message = FlipLow(@, i)] : i \in { 1, DIGEST_LEN } }

\* one slot, the claimed triple behind it
OneSlot == SlotsData(1, 0, << Desc(48, 16, 112, 32) >>, TripleBytes(CLAIMED))

\* two slots before the claimed triple (at 30) and another triple (at 158);
\* a slot names the claimed triple, the other one, the public key and
\* message of the claimed one with the signature of the other, a signature
\* past the data, or a message of 33 bytes
SlotKinds ==
    { Desc(62, 30, 126, 32), Desc(190, 158, 254, 32), Desc(190, 30, 126, 32),
      Desc(65535, 30, 126, 32), Desc(62, 30, 126, 33) }

TwoSlotPayloads ==
    { SlotsData(2, 0, << d0, d1 >>, TripleBytes(CLAIMED) \o TripleBytes(OTHER_TRIPLE)) :
        d0 \in SlotKinds, d1 \in SlotKinds }

\* one slot with every combination of offsets at, just past and far past
\* the last place the range fits in the 144 bytes of data, and message sizes
\* around 32
OffsetPayloads ==
    { SlotsData(1, 0, << Desc(so, po, mo, ms) >>, TripleBytes(CLAIMED)) :
        so \in { 48, 80, 81, 65535 }, po \in { 16, 112, 113, 65535 },
        mo \in { 112, 113, 65535 }, ms \in { 32, 0, 33, 65535 } }

\* data too short for its header or its descriptors, without signatures,
\* or with a padding byte
ShortPayloads ==
    { SubSeq(OneSlot, 1, n) : n \in 0..15 }
    \cup { SubSeq([OneSlot EXCEPT ![1] = 2], 1, 29),
           [OneSlot EXCEPT ![1] = 255],
           [OneSlot EXCEPT ![1] = 0],
           [OneSlot EXCEPT ![2] = 1] }

CrossCheckInputs ==
    { [data |-> d, claim |-> c] : d \in { OneSlot } \cup TwoSlotPayloads, c \in Claims }
    \cup { [data |-> d, claim |-> CLAIMED] : d \in OffsetPayloads \cup ShortPayloads }

\* the transaction in which data is that of the instruction before the
\* running one
TransactionWith(data) ==
    [current_index |-> 1, instructions |-> << Ed25519Instruction(data) >>]

CrossCheck(input) ==
    /\ last.op = "none"
    /\ last' = [op |-> "verify_ed25519_instruction",
                err |-> verify_ed25519_instruction(TransactionWith(input.data),
                                                   input.claim.pubkey,
                                                   input.claim.message,
                                                   input.claim.signature),
                data |-> input.data,
                claim |-> input.claim]
    /\ UNCHANGED << config, used_decisions, asset_risk_status, now, accepted,
                    ticks, rotations, inflight, basic >>

CrossCheckBasic(input) ==
    /\ last.op = "none"
    /\ last' = [op |-> "verify_ed25519_signature",
                err |-> verify_ed25519_signature(TransactionWith(input.data),
                                                 input.claim.pubkey,
                                                 input.claim.message,
                                                 input.claim.signature),
                data |-> input.data,
                claim |-> input.claim]
    /\ UNCHANGED << config, used_decisions, asset_risk_status, now, accepted,
                    ticks, rotations, inflight, basic >>

NextCrossCheck ==
    \E input \in CrossCheckInputs : CrossCheck(input) \/ CrossCheckBasic(input)

SpecCrossCheck == Init /\ [][NextCrossCheck]_vars


(***************************************************************************)
(* Publishes in flight at once.  Each is a transaction of its own that     *)
(* names used_decisions and its asset record as writable accounts          *)
(* (#[account(mut)]); the runtime gives a writable account to one          *)
(* transaction at a time.  The instruction is taken in two steps around    *)
(* the point between is_used and mark_used: the first loads the accounts   *)
(* into the transaction's own copy and makes the checks, the second marks  *)
(* the digest used in that copy, writes the record and stores the copy     *)
(* back.  inflight holds the transactions, their position and their copy.  *)
(***************************************************************************)
MaxInFlight == 3

InFlight == 1..MaxInFlight

\* the authority's genuine submissions inside the window, for either
\* digest: BTC at the early edge, ETH at the late edge
ConcurrentSubmissions ==
    { r \in GenuineSubmissions :
        /\ r \in Submissions
        /\ r.signer_pubkey = SIGNER_A
        /\ r.offset \in { EARLIEST, LATEST } }

Submitted(sub) ==
    [sub |-> sub, pc |-> "submitted", err |-> "Ok",
     used_decisions |-> NoAccount, asset_risk_status |-> NoAccount]

InitConcurrent ==
    /\ config = initialize_config(ADMIN, SIGNER_A).config
    /\ used_decisions = initialize_config(ADMIN, SIGNER_A).used_decisions
    /\ asset_risk_status = [a \in AssetIdInputs |-> NoAccount]
    /\ now = 0
    /\ last = [op |-> "none", err |-> "Ok"]
    /\ accepted = {}
    /\ ticks = 0
    /\ rotations = 0
    /\ basic = NotDeployed
    /\ inflight \in [InFlight -> { Submitted(r) : r \in ConcurrentSubmissions }]

\* a runtime that hands a writable account to any number of transactions
NoWriteLock(t) == TRUE

\* no other transaction holds the accounts t writes
WriteLockFree(t) == \A u \in DOMAIN inflight : u # t => inflight[u].pc # "running"

\* the accounts are loaded and the checks up to the cross-check are made
UpdateRiskStatusChecks(t) ==
    LET sub == inflight[t].sub
        req == RequestAt(sub, now)
        accts == UpdateRiskStatusAccounts(config, used_decisions, req.caller)
        err == IF accts # "Ok" THEN accts
               ELSE Checks(config, used_decisions, req, now, Verification[sub])
    IN  /\ inflight[t].pc = "submitted"
        /\ WriteLockFree(t)
        /\ inflight' =
             [inflight EXCEPT ![t] =
                IF err = "Ok"
                THEN [@ EXCEPT !.pc = "running",
                               !.used_decisions = used_decisions,
                               !.asset_risk_status = asset_risk_status[req.asset_id]]
                ELSE [@ EXCEPT !.pc = "done", !.err = err]]
        /\ UNCHANGED << config, used_decisions, asset_risk_status, now, last,
                        accepted, ticks, rotations, basic >>

\* the digest is marked used in the copy, the record written, and the
\* copy stored back as the instruction leaves
UpdateRiskStatusConsume(t) ==
    LET own == inflight[t]
        req == RequestAt(own.sub, now)
        out == update_risk_status(config, own.used_decisions, own.asset_risk_status,
                                  req, now, Verification[own.sub])
        err == IF out.err # "Ok" THEN out.err
               ELSE ExitUsedDecisions(out.used_decisions)
    IN  /\ own.pc = "running"
        /\ used_decisions' = Commit(err, out.used_decisions, used_decisions)
        /\ asset_risk_status' =
             [asset_risk_status EXCEPT ![req.asset_id] =
                 Commit(err, out.asset_risk_status, @)]
        /\ accepted' = IF err = "Ok" THEN accepted \cup { req.decision_hash }
                       ELSE accepted
        /\ inflight' = [inflight EXCEPT ![t] = [Submitted(own.sub) EXCEPT
                                                   !.pc = "done", !.err = err]]
        /\ UNCHANGED << config, now, last, ticks, rotations, basic >>

NextConcurrent ==
    \E t \in InFlight : UpdateRiskStatusChecks(t) \/ UpdateRiskStatusConsume(t)

SpecConcurrent == InitConcurrent /\ [][NextConcurrent]_vars


(***************************************************************************)
(* The two variants side by side: both deployed with the same authority    *)
(* and trusted signer, and every transaction submitted to both at the      *)
(* same clock.  The submissions carry one-slot verification steps without  *)
(* padding and timestamps at the two edges of the window.  basic holds     *)
(* the accounts of the basic variant and what it returned last.            *)
(***************************************************************************)
\* verify_ed25519_signature on the transaction of each submission
VerificationBasic ==
    [ r \in Submissions |->
        verify_ed25519_signature(TransactionOf(r), r.signer_pubkey,
                                 r.decision_hash, r.signature) ]

VariantSubmissions == { r \in Submissions : r.offset \in { EARLIEST, LATEST } }

InitVariants ==
    /\ config = initialize_config(ADMIN, SIGNER_A).config
    /\ used_decisions = initialize_config(ADMIN, SIGNER_A).used_decisions
    /\ asset_risk_status = [a \in AssetIdInputs |-> NoAccount]
    /\ now = 0
    /\ last = [op |-> "none", err |-> "Ok"]
    /\ accepted = {}
    /\ ticks = 0
    /\ rotations = 0
    /\ inflight = << >>
    /\ basic = [NotDeployed EXCEPT
                   !.config = initialize_config_basic(ADMIN, SIGNER_A)]

\* what the basic update_risk_status returns for a submission and leaves in
\* the asset's record
UpdateRiskStatusOutcomeBasic(sub) ==
    LET req == RequestAt(sub, now)
        accts == UpdateRiskStatusAccountsBasic(basic.config, req.caller)
    IN  IF accts # "Ok"
        THEN [err |-> accts, asset_risk_status |-> basic.asset_risk_status[req.asset_id]]
        ELSE update_risk_status_basic(basic.config,
                                      basic.asset_risk_status[req.asset_id],
                                      req, now, VerificationBasic[sub])

\* one publish, submitted to both variants
UpdateRiskStatusBoth(sub) ==
    LET out == UpdateRiskStatusOutcome(sub)
        outBasic == UpdateRiskStatusOutcomeBasic(sub)
    IN  /\ used_decisions' = Commit(out.err, out.used_decisions, used_decisions)
        /\ asset_risk_status' =
             [asset_risk_status EXCEPT ![sub.asset_id] =
                 Commit(out.err, out.asset_risk_status, @)]
        /\ accepted' = IF out.err = "Ok" THEN accepted \cup {sub.decision_hash}
                       ELSE accepted
        /\ last' = [op |-> "update_risk_status", err |-> out.err,
                    req |-> RequestAt(sub, now)]
        /\ basic' = [basic EXCEPT
                       !.err = outBasic.err,
                       !.asset_risk_status[sub.asset_id] =
                           Commit(outBasic.err, outBasic.asset_risk_status, @)]
        /\ UNCHANGED << config, now, ticks, rotations, inflight >>

\* the clock both variants read moves on
TickBoth(step) ==
    /\ ticks < MaxTicks
    /\ now' = now + step
    /\ ticks' = ticks + 1
    /\ last' = [op |-> "tick", err |-> "Ok"]
    /\ basic' = [basic EXCEPT !.err = "Ok"]
    /\ UNCHANGED << config, used_decisions, asset_risk_status, accepted, rotations,
                    inflight >>

NextVariants ==
    \/ \E sub \in VariantSubmissions : UpdateRiskStatusBoth(sub)
    \/ \E step \in ClockSteps : TickBoth(step)

SpecVariants == InitVariants /\ [][NextVariants]_vars


(***************************************************************************)
(* Properties.  A step that submits a publish is one whose last' names     *)
(* update_risk_status; last'.req are its arguments and last'.err what it   *)
(* returned.                                                               *)
(***************************************************************************)
\* C1: a digest is accepted by update_risk_status at most once, over any
\* sequence of operations and clock advances: once a publish carrying D has
\* succeeded, no later publish carrying D succeeds.
C1_AcceptedAtMostOnce ==
    [][ ( /\ last'.op = "update_risk_status"
          /\ last'.req.decision_hash \in accepted )
        => last'.err # "Ok" ]_vars

\* C2: a publish or a verify_decision passes the cross-check only if the
\* verification step before it authenticated exactly the claimed
\* (signer, digest, signature), whatever instruction the descriptor's
\* instruction-index fields name.
C2_VerifiedMeansAuthenticated ==
    ( /\ last.op \in { "update_risk_status", "verify_decision" }
      /\ last.err = "Ok" )
    => << last.req.signer_pubkey, last.req.decision_hash, last.req.signature >>
          \in Authenticated(TransactionOf(last.req))


\* C3: update_risk_status is all-or-nothing.  When it fails, at whatever
\* step (account constraints, input validation, timestamp, signer,
\* freshness, cross-check, the ledger after its purge, the write-back), the
\* ledger, every asset record and the config are what they were; when it
\* succeeds, the digest is the ledger's newest entry and the asset's record
\* holds the request, and nothing else is touched.
C3_AllOrNothing ==
    [][ last'.op = "update_risk_status" =>
          IF last'.err # "Ok"
          THEN UNCHANGED accounts
          ELSE LET req == last'.req
                   entries == used_decisions'.decisions
                   record == asset_risk_status'[req.asset_id]
               IN  /\ Len(entries) >= 1
                   /\ entries[Len(entries)] =
                        [hash |-> req.decision_hash, timestamp |-> req.timestamp]
                   /\ record.exists
                   /\ record.decision_hash = req.decision_hash
                   /\ record.signature = req.signature
                   /\ record.signer_pubkey = req.signer_pubkey
                   /\ record.risk_score = req.risk_score
                   /\ record.is_blocked = req.is_blocked
                   /\ record.confidence_ratio = req.confidence_ratio
                   /\ record.publisher_count = req.publisher_count
                   /\ record.timestamp = req.timestamp
                   /\ record.last_updated = now
                   /\ \A a \in AssetIdInputs \ {req.asset_id} :
                         asset_risk_status'[a] = asset_risk_status[a]
                   /\ config' = config ]_vars

\* C3, its case: a publish failed after the handler had purged the ledger
\* and pushed the digest in memory, and the ledger still holds every entry
\* it held.
C3_FailedAfterWrites ==
    /\ last.op = "update_risk_status"
    /\ last.err = "AccountDidNotSerialize"
    /\ now > 0
    /\ Len(used_decisions.decisions) = RecordsThatFit
    /\ used_decisions.decisions[1].timestamp = EARLIEST

\* the request passes the account constraints, input validation and the
\* timestamp window of update_risk_status at current_time
ReachesSignerCheck(req, current_time) ==
    /\ config.exists
    /\ used_decisions.exists
    /\ req.caller = config.authority
    /\ Len(req.asset_id) \in 1..MAX_ASSET_ID_LEN
    /\ req.risk_score <= MAX_RISK_SCORE
    /\ req.confidence_ratio <= MAX_CONFIDENCE_RATIO
    /\ req.timestamp \in (current_time - PAST_TOLERANCE)..(current_time + FUTURE_TOLERANCE)

\* C4, without regard to the earlier checks: once the signer has been
\* rotated, every publish whose signer is not the one now trusted fails
\* with InvalidSigner.
C4_EveryPublishInvalidSigner ==
    [][ ( /\ last'.op = "update_risk_status"
          /\ rotations >= 1
          /\ last'.req.signer_pubkey # config.trusted_signer )
        => last'.err = "InvalidSigner" ]_vars

\* C4: once the signer has been rotated, every publish whose signer is
\* not the one now trusted fails, and fails with InvalidSigner
\* whenever it passes the account constraints, input validation and the
\* timestamp window: also a replay of a digest accepted under the old
\* signer, also with a genuine verification step for the old signer.
C4_OldSignerRejected ==
    [][ ( /\ last'.op = "update_risk_status"
          /\ rotations >= 1
          /\ last'.req.signer_pubkey # config.trusted_signer )
        => /\ last'.err # "Ok"
           /\ ReachesSignerCheck(last'.req, now) => last'.err = "InvalidSigner" ]_vars

\* C4, its case: after a rotation away from the signer a digest was
\* accepted under, a replay of that digest with the old signer's genuine
\* verification step, the digest still in the ledger, got InvalidSigner.
C4_ReplayUnderOldSigner ==
    /\ last.op = "update_risk_status"
    /\ last.err = "InvalidSigner"
    /\ rotations >= 1
    /\ last.req.tx_kind = "genuine"
    /\ last.req.signer_pubkey # config.trusted_signer
    /\ is_used(used_decisions, last.req.decision_hash)
    /\ asset_risk_status[last.req.asset_id].exists
    /\ asset_risk_status[last.req.asset_id].signer_pubkey = last.req.signer_pubkey
    /\ asset_risk_status[last.req.asset_id].decision_hash = last.req.decision_hash


\* C5: after a successful consume the ledger holds fewer entries than its
\* capacity, so that the consume after capacity - 1 entries fails.
C5_BelowCapacity ==
    ( /\ last.op = "mark_used"
      /\ last.err = "Ok" )
    => Len(used_decisions.decisions) < used_decisions.max_size

\* C6: a successful publish with a timestamp 3601 or more after that of an
\* entry removes that entry's digest from the ledger, and one with a
\* timestamp 3599 or less after it leaves the digest in the ledger.
C6_FreshnessBoundary ==
    [][ ( /\ last'.op = "update_risk_status"
          /\ last'.err = "Ok" )
        => \A i \in 1..Len(used_decisions.decisions) :
              LET d == used_decisions.decisions[i]
                  age == last'.req.timestamp - d.timestamp
              IN  /\ age >= RETENTION + 1 => ~is_used(used_decisions', d.hash)
                  /\ age <= RETENTION - 1 => is_used(used_decisions', d.hash) ]_vars

\* C6, its case: a digest was consumed with timestamp T, another digest
\* has just been consumed with timestamp T + 3601, and the ledger no
\* longer holds the first.
C6_PurgedAfterWindow ==
    /\ last.op = "update_risk_status"
    /\ last.err = "Ok"
    /\ last.req.timestamp = EARLIEST + RETENTION + 1
    /\ \E digest \in accepted :
          /\ digest # last.req.decision_hash
          /\ ~is_used(used_decisions, digest)

\* C7: a successful consume removes exactly the entries whose timestamp is
\* more than 3600 before the new one and keeps every other entry, in their
\* order, before it appends the new one.
C7_PurgesOlderThanWindow ==
    [][ ( /\ last'.op = "update_risk_status"
          /\ last'.err = "Ok" )
        => LET req == last'.req
               decision_timestamp == req.timestamp
           IN  used_decisions'.decisions =
                 Append(SelectSeq(used_decisions.decisions,
                                  LAMBDA d : ~(decision_timestamp - d.timestamp > RETENTION)),
                        [hash |-> req.decision_hash, timestamp |-> req.timestamp]) ]_vars

C9_RotationOnlyByAuthority ==
    [][ LET authorized == /\ config.exists
                          /\ config.is_initialized
                          /\ last'.caller = config.authority
        IN  /\ ( /\ last'.op = "update_trusted_signer"
                 /\ last'.err = "Ok" )
               => /\ authorized
                  /\ config'.trusted_signer = last'.new_signer
                  /\ u64_less(config.nonce, config'.nonce)
            /\ ( /\ last'.op = "update_trusted_signer"
                 /\ ~authorized )
               => /\ last'.err = "Unauthorized"
                  /\ config' = config
            /\ ( /\ last'.op # "update_trusted_signer"
                 /\ config.exists )
               => /\ config'.exists
                  /\ config'.trusted_signer = config.trusted_signer ]_vars

\* C10: initialize_config succeeds only when no config exists, and then
\* the config names the caller as authority and the given signer as trusted
\* signer with nonce 0, and the ledger is empty with max_size 1000; when a
\* config exists it fails and the config, the ledger and the asset records
\* are unchanged.
C10_BootstrapOnce ==
    [][ last'.op = "initialize_config" =>
          IF config.exists
          THEN /\ last'.err = "AccountAlreadyInUse"
               /\ UNCHANGED accounts
          ELSE /\ last'.err = "Ok"
               /\ config' = [ exists         |-> TRUE,
                              authority      |-> last'.caller,
                              is_initialized |-> TRUE,
                              trusted_signer |-> last'.trusted_signer,
                              nonce          |-> U64_ZERO ]
               /\ used_decisions'.exists
               /\ used_decisions'.decisions = << >>
               /\ used_decisions'.max_size = MAX_SIZE
               /\ asset_risk_status' = asset_risk_status ]_vars

\* C10, its case: a second initialize_config, by another caller, has
\* failed on a config whose signer was rotated and a ledger that holds
\* entries.
C10_SecondBootstrapFailed ==
    /\ last.op = "initialize_config"
    /\ last.err = "AccountAlreadyInUse"
    /\ last.caller # config.authority
    /\ last.trusted_signer # config.trusted_signer
    /\ config.nonce # U64_ZERO
    /\ Len(used_decisions.decisions) >= 1


\* what a request violates, told from the request and the accounts alone
InputValid(req) ==
    /\ Len(req.asset_id) \in 1..MAX_ASSET_ID_LEN
    /\ req.risk_score <= MAX_RISK_SCORE
    /\ req.confidence_ratio <= MAX_CONFIDENCE_RATIO

InWindow(req, current_time) ==
    req.timestamp \in (current_time - PAST_TOLERANCE)..(current_time + FUTURE_TOLERANCE)

InLedger(hash) ==
    \E i \in 1..Len(used_decisions.decisions) : used_decisions.decisions[i].hash = hash

\* the verification step of the request's transaction is an Ed25519
\* instruction whose own data holds the claimed triple
StepMatches(req) == req.tx_kind \in { "genuine", "redirect" }

PassesConstraints(req) ==
    /\ config.exists
    /\ used_decisions.exists
    /\ req.caller = config.authority

InputErrors ==
    { "AssetIdTooLong", "AssetIdEmpty", "InvalidRiskScore", "InvalidConfidenceRatio" }

CrossCheckErrors ==
    { "MissingEd25519Instruction", "InvalidEd25519Program", "InvalidEd25519Data",
      "SignatureOffsetOverflow", "PubkeyOffsetOverflow", "InvalidMessageSize",
      "MessageOffsetOverflow", "SignatureVerificationFailed" }

\* C11: the error of a publish is that of the earliest step it fails, in
\* the order input validation, InvalidTimestamp, InvalidSigner,
\* DecisionAlreadyUsed, cross-check errors, and only then the ledger: so a
\* replayed digest with a missing or foreign verification step gets
\* DecisionAlreadyUsed and a replayed digest under a signer no longer
\* trusted gets InvalidSigner.
C11_EarliestFailingStep ==
    [][ ( /\ last'.op = "update_risk_status"
          /\ PassesConstraints(last'.req) )
        => LET req == last'.req
               e == last'.err
           IN  IF ~InputValid(req) THEN e \in InputErrors
               ELSE IF ~InWindow(req, now) THEN e = "InvalidTimestamp"
               ELSE IF req.signer_pubkey # config.trusted_signer THEN e = "InvalidSigner"
               ELSE IF InLedger(req.decision_hash) THEN e = "DecisionAlreadyUsed"
               ELSE IF ~StepMatches(req) THEN e \in CrossCheckErrors
               ELSE e \in { "Ok", "DecisionHistoryFull", "AccountDidNotSerialize" } ]_vars

\* C11, its case: a publish that replays a digest in the ledger and has no
\* verification step before it got DecisionAlreadyUsed.
C11_ReplayWithoutStep ==
    /\ last.op = "update_risk_status"
    /\ last.err = "DecisionAlreadyUsed"
    /\ last.req.tx_kind = "none"
    /\ InLedger(last.req.decision_hash)


\* C12, whatever else the request violates: a publish succeeds only with a
\* timestamp in [now - 300, now + 60], and one with a timestamp outside it
\* fails with InvalidTimestamp.
C12_OutsideWindowInvalidTimestamp ==
    [][ ( /\ last'.op = "update_risk_status"
          /\ PassesConstraints(last'.req) )
        => /\ last'.err = "Ok" => InWindow(last'.req, now)
           /\ ~InWindow(last'.req, now) => last'.err = "InvalidTimestamp" ]_vars

\* C12: a publish succeeds only with a timestamp in [now - 300, now + 60];
\* one that passes input validation with a timestamp outside it fails with
\* InvalidTimestamp, whoever signed it, whether or not its digest is in the
\* ledger and whatever its verification step; and a publish at either edge
\* of the window that fails no other check succeeds.
C12_TimestampWindow ==
    [][ ( /\ last'.op = "update_risk_status"
          /\ PassesConstraints(last'.req) )
        => LET req == last'.req
           IN  /\ last'.err = "Ok" => InWindow(req, now)
               /\ ( /\ InputValid(req)
                    /\ ~InWindow(req, now) )
                  => last'.err = "InvalidTimestamp"
               /\ ( /\ InputValid(req)
                    /\ req.timestamp \in { now - PAST_TOLERANCE, now + FUTURE_TOLERANCE }
                    /\ req.signer_pubkey = config.trusted_signer
                    /\ ~InLedger(req.decision_hash)
                    /\ StepMatches(req) )
                  => last'.err \in { "Ok", "AccountDidNotSerialize" } ]_vars

\* C12, its case: publishes at both edges of the window have been
\* accepted, one 300 before the clock and one 60 after it.
C12_BothEdgesAccepted ==
    /\ asset_risk_status[BTC].exists
    /\ asset_risk_status[BTC].timestamp = asset_risk_status[BTC].last_updated - PAST_TOLERANCE
    /\ asset_risk_status[ETH].exists
    /\ asset_risk_status[ETH].timestamp = asset_risk_status[ETH].last_updated + FUTURE_TOLERANCE


\* C13: verify_decision succeeds exactly when the timestamp, signer,
\* freshness and cross-check steps of a publish with the same arguments
\* would succeed in the same state: the timestamp in [now - 300, now + 60],
\* the signer the trusted one, the digest not in the ledger, the
\* verification step matching.
C13_VerifyAsPublishSteps ==
    ( /\ last.op = "verify_decision"
      /\ config.exists )
    => ( last.err = "Ok"
         <=> /\ InWindow(last.req, now)
             /\ last.req.signer_pubkey = config.trusted_signer
             /\ ~InLedger(last.req.decision_hash)
             /\ StepMatches(last.req) )

\* C14: verify_decision changes nothing, whether it succeeds or fails:
\* the ledger, every asset record and the config are what they were, and
\* every publish of the digest it verified gets what it would have got
\* before.
C14_VerifyChangesNothing ==
    [][ last'.op = "verify_decision"
        => /\ UNCHANGED << config, used_decisions, asset_risk_status >>
           /\ \A sub \in GenuineSubmissions :
                 ( /\ sub.decision_hash = last'.req.decision_hash
                   /\ sub.offset = EARLIEST )
                 => UpdateRiskStatusOutcome(sub)' = UpdateRiskStatusOutcome(sub) ]_vars

\* C14, its case: a digest that is not in the ledger has been verified
\* with success, beside other entries in the ledger and a record in the
\* registry.
C14_VerifiedNotConsumed ==
    /\ last.op = "verify_decision"
    /\ last.err = "Ok"
    /\ ~InLedger(last.req.decision_hash)
    /\ Len(used_decisions.decisions) >= 1
    /\ \E a \in AssetIds : asset_risk_status[a].exists


(***************************************************************************)
(* The cross-check as a function of the data and the claimed triple.       *)
(***************************************************************************)
CrossChecked == last.op = "verify_ed25519_instruction"

\* the data has its header and the descriptors the header announces
Parses(data) ==
    /\ Len(data) >= ED25519_INSTRUCTION_LEN
    /\ Byte(data, 0) >= 1
    /\ Byte(data, 1) = 0
    /\ Len(data) >= ED25519_INSTRUCTION_LEN + Byte(data, 0) * SIGNATURE_OFFSETS_LEN

SlotsOf(data) == 0..(Byte(data, 0) - 1)

\* the three ranges of slot i lie in the data and the message has 32 bytes
SlotInBounds(data, i) ==
    LET o == SlotOffsets(data, i)
    IN  /\ o.signature_offset + ED25519_SIG_LEN <= Len(data)
        /\ o.public_key_offset + ED25519_PUBKEY_LEN <= Len(data)
        /\ o.message_data_size = DIGEST_LEN
        /\ o.message_data_offset + o.message_data_size <= Len(data)

\* the triple slot i points at
SlotSlices(data, i) ==
    LET o == SlotOffsets(data, i)
    IN  [ pubkey    |-> Slice(data, o.public_key_offset,
                              o.public_key_offset + ED25519_PUBKEY_LEN),
          message   |-> Slice(data, o.message_data_offset,
                              o.message_data_offset + o.message_data_size),
          signature |-> Slice(data, o.signature_offset,
                              o.signature_offset + ED25519_SIG_LEN) ]

SlotMatches(data, i, claim) ==
    SlotInBounds(data, i) /\ SlotSlices(data, i) = claim

(***************************************************************************)
(* C15.  The cross-check succeeds only if some slot of the data points at  *)
(* a public key, a signature and a message equal byte for byte to the      *)
(* claimed ones; and when the data parses and every slot is in bounds, a   *)
(* claimed triple that differs from the triple of every slot gets          *)
(* SignatureVerificationFailed.                                            *)
(***************************************************************************)
C15_MatchOrVerificationFailed ==
    CrossChecked =>
        /\ last.err = "Ok" =>
               /\ Parses(last.data)
               /\ \E i \in SlotsOf(last.data) : SlotMatches(last.data, i, last.claim)
        /\ ( /\ Parses(last.data)
             /\ \A i \in SlotsOf(last.data) : SlotInBounds(last.data, i)
             /\ \A i \in SlotsOf(last.data) : SlotSlices(last.data, i) # last.claim )
           => last.err = "SignatureVerificationFailed"

\* two slots in bounds, one of them at the triple that the claimed one
\* differs from in one bit of the last signature byte: refused
C15_OneBitOffRefused ==
    /\ CrossChecked
    /\ Parses(last.data)
    /\ Byte(last.data, 0) = 2
    /\ \A i \in SlotsOf(last.data) : SlotInBounds(last.data, i)
    /\ \E i \in SlotsOf(last.data) : SlotSlices(last.data, i) = CLAIMED
    /\ last.claim = [CLAIMED EXCEPT !.signature = FlipHigh(@, ED25519_SIG_LEN)]
    /\ last.err = "SignatureVerificationFailed"


\* the loop gets to slot i: every slot before it is in bounds and points
\* at a triple other than the claimed one
Reached(data, i, claim) ==
    \A k \in 0..(i - 1) : SlotInBounds(data, k) /\ SlotSlices(data, k) # claim

SignatureOrKeyExceeds(data, i) ==
    LET o == SlotOffsets(data, i)
    IN  \/ o.signature_offset + ED25519_SIG_LEN > Len(data)
        \/ o.public_key_offset + ED25519_PUBKEY_LEN > Len(data)

\* one of the three ranges of slot i ends past the data
Exceeds(data, i) ==
    LET o == SlotOffsets(data, i)
    IN  \/ SignatureOrKeyExceeds(data, i)
        \/ o.message_data_offset + o.message_data_size > Len(data)

OffsetErrors ==
    { "SignatureOffsetOverflow", "PubkeyOffsetOverflow", "MessageOffsetOverflow" }

(***************************************************************************)
(* C16, in the words of the claim: whenever a range of some slot of the    *)
(* data ends past the data, the cross-check returns an offset error.       *)
(***************************************************************************)
C16_ExceedingRangeOffsetError ==
    (CrossChecked /\ Parses(last.data)) =>
        \A i \in SlotsOf(last.data) :
            Exceeds(last.data, i) => last.err \in OffsetErrors

(***************************************************************************)
(* C16.  The cross-check never aborts on an index past the data, whatever  *)
(* the offsets and sizes.  When the loop gets to a slot with a range that  *)
(* ends past the data it returns an error: an offset error if the         *)
(* signature or the public key range is the one, or if the message has 32  *)
(* bytes; InvalidMessageSize if only the message range is, with a size     *)
(* other than 32.                                                          *)
(***************************************************************************)
C16_NoAbortOnOffsets ==
    CrossChecked =>
        /\ last.err # "Panic"
        /\ Parses(last.data) =>
             \A i \in SlotsOf(last.data) :
                 (Reached(last.data, i, last.claim) /\ Exceeds(last.data, i)) =>
                     \/ last.err \in OffsetErrors
                     \/ /\ last.err = "InvalidMessageSize"
                        /\ SlotOffsets(last.data, i).message_data_size # DIGEST_LEN
                        /\ ~SignatureOrKeyExceeds(last.data, i)

\* a signature offset of 65535, the end of whose range does not fit in a
\* u16: refused with the signature's offset error
C16_LargestOffsetRefused ==
    /\ CrossChecked
    /\ Parses(last.data)
    /\ SlotOffsets(last.data, 0).signature_offset = THIS_INSTRUCTION
    /\ last.err = "SignatureOffsetOverflow"


(***************************************************************************)
(* C17, in the words of the claim: if some slot is in bounds, has a        *)
(* message of 32 bytes and points at the claimed triple, the cross-check   *)
(* succeeds, whatever the slots before it hold.                            *)
(***************************************************************************)
C17_AnyMatchingSlotSucceeds ==
    ( /\ CrossChecked
      /\ Parses(last.data)
      /\ \E i \in SlotsOf(last.data) : SlotMatches(last.data, i, last.claim) )
    => last.err = "Ok"

(***************************************************************************)
(* C17.  The cross-check goes through the slots in order and succeeds at   *)
(* the first that points at the claimed triple, slot 0 or a later one,     *)
(* provided every slot before it is in bounds with a message of 32 bytes;  *)
(* which triple those earlier slots point at does not matter.              *)
(***************************************************************************)
C17_FirstMatchAfterSoundSlots ==
    ( /\ CrossChecked
      /\ Parses(last.data)
      /\ \E i \in SlotsOf(last.data) :
            /\ SlotMatches(last.data, i, last.claim)
            /\ \A k \in 0..(i - 1) : SlotInBounds(last.data, k) )
    => last.err = "Ok"

\* slot 0 points at another triple, slot 1 at the claimed one: accepted
C17_SecondSlotAccepted ==
    /\ CrossChecked
    /\ Parses(last.data)
    /\ Byte(last.data, 0) = 2
    /\ SlotInBounds(last.data, 0)
    /\ SlotSlices(last.data, 0) = OTHER_TRIPLE
    /\ SlotMatches(last.data, 1, last.claim)
    /\ last.err = "Ok"


CrossCheckedBasic == last.op = "verify_ed25519_signature"

\* the header and one descriptor
BasicMinLen == ED25519_INSTRUCTION_LEN + SIGNATURE_OFFSETS_LEN

\* the hardened variant refuses data that does not parse as invalid data
HardenedRefusesUnparsed ==
    (CrossChecked /\ ~Parses(last.data)) => last.err = "InvalidEd25519Data"

(***************************************************************************)
(* C18.  Both variants refuse, with the invalid-data error, data that is   *)
(* too short or announces no signature: the hardened one data shorter      *)
(* than its header and the descriptors it announces, or with a padding     *)
(* byte; the basic one data shorter than 16 bytes.                         *)
(***************************************************************************)
C18_ShortPayloadInvalidData ==
    /\ HardenedRefusesUnparsed
    /\ ( /\ CrossCheckedBasic
         /\ \/ Len(last.data) < BasicMinLen
            \/ Byte(last.data, 0) = 0 )
       => last.err = "InvalidEd25519Data"


(***************************************************************************)
(* Publishes in flight at once.                                            *)
(***************************************************************************)
\* the publishes of digest d that have succeeded
Succeeded(d) ==
    { t \in DOMAIN inflight :
        /\ inflight[t].pc = "done"
        /\ inflight[t].err = "Ok"
        /\ inflight[t].sub.decision_hash = d }

\* the places of the ledger that hold digest d
EntriesFor(d) ==
    IF ~used_decisions.exists THEN {}
    ELSE { i \in 1..Len(used_decisions.decisions) :
             used_decisions.decisions[i].hash = d }

(***************************************************************************)
(* C19.  However the steps of publishes submitted together interleave,     *)
(* at most one publish of a digest succeeds and the ledger holds at most   *)
(* one entry for it, for the same asset or for different ones.             *)
(***************************************************************************)
C19_OneConsumerPerDigest ==
    \A d \in Digests :
        /\ Cardinality(Succeeded(d)) <= 1
        /\ Cardinality(EntriesFor(d)) <= 1

\* three publishes of one digest, not all for the same asset, all done:
\* one accepted, the others refused as already used, one entry in the ledger
C19_OneOfThreeAccepted ==
    /\ DOMAIN inflight = InFlight
    /\ \A t \in InFlight :
          /\ inflight[t].pc = "done"
          /\ inflight[t].sub.decision_hash = Digest(1)
          /\ inflight[t].err \in { "Ok", "DecisionAlreadyUsed" }
    /\ \E t, u \in InFlight : inflight[t].sub.asset_id # inflight[u].sub.asset_id
    /\ Cardinality(Succeeded(Digest(1))) = 1
    /\ Cardinality(EntriesFor(Digest(1))) = 1


(***************************************************************************)
(* C20.  After a publish for an asset has succeeded, every field of the    *)
(* asset's record is the argument of that call and last_updated is the     *)
(* clock, whatever the record held before; the record of every other      *)
(* asset is as it was.                                                     *)
(***************************************************************************)
C20_RecordReplaced ==
    [][ (last'.op = "update_risk_status" /\ last'.err = "Ok") =>
          LET req == last'.req
              written == asset_risk_status'[req.asset_id]
          IN  /\ written.exists
              /\ written.risk_score = req.risk_score
              /\ written.is_blocked = req.is_blocked
              /\ written.confidence_ratio = req.confidence_ratio
              /\ written.publisher_count = req.publisher_count
              /\ written.decision_hash = req.decision_hash
              /\ written.signature = req.signature
              /\ written.signer_pubkey = req.signer_pubkey
              /\ written.timestamp = req.timestamp
              /\ written.last_updated = now
              /\ \A a \in AssetIdInputs \ { req.asset_id } :
                    asset_risk_status'[a] = asset_risk_status[a] ]_vars

\* a second publish for BTC, of another digest, over the record the first
\* one left
C20_RecordOverwritten ==
    /\ last.op = "update_risk_status"
    /\ last.err = "Ok"
    /\ last.req.asset_id = BTC
    /\ last.req.decision_hash = Digest(2)
    /\ Digest(1) \in accepted
    /\ ~asset_risk_status[ETH].exists
    /\ asset_risk_status[BTC].decision_hash = Digest(2)


(***************************************************************************)
(* The two variants side by side.                                          *)
(***************************************************************************)
\* the fields the records of both variants have
SharedFields(record) ==
    IF ~record.exists THEN NoAccount
    ELSE [ exists           |-> TRUE,
           asset_id         |-> record.asset_id,
           risk_score       |-> record.risk_score,
           is_blocked       |-> record.is_blocked,
           last_updated     |-> record.last_updated,
           confidence_ratio |-> record.confidence_ratio,
           publisher_count  |-> record.publisher_count,
           decision_hash    |-> record.decision_hash,
           signature        |-> record.signature,
           signer_pubkey    |-> record.signer_pubkey ]

(***************************************************************************)
(* C21.  On one-slot verification steps without padding and timestamps     *)
(* inside the window the two variants accept and reject the same           *)
(* publishes, a replayed digest included, and hold the same asset records. *)
(***************************************************************************)
C21_VariantsAgree ==
    last.op = "update_risk_status" =>
        /\ (basic.err = "Ok") <=> (last.err = "Ok")
        /\ \A a \in AssetIdInputs :
              SharedFields(asset_risk_status[a]) = basic.asset_risk_status[a]


(***************************************************************************)
(* C22.  A full ledger recovers with time: a consume whose timestamp is    *)
(* more than 3600 later than that of every entry succeeds, however many    *)
(* entries there are, and leaves the new entry alone in the ledger.        *)
(***************************************************************************)
C22_FullLedgerRecovers ==
    [][ ( /\ last'.op = "mark_used"
          /\ \A i \in 1..Len(used_decisions.decisions) :
                last'.timestamp - used_decisions.decisions[i].timestamp > RETENTION )
        => /\ last'.err = "Ok"
           /\ used_decisions'.decisions =
                << [hash |-> last'.hash, timestamp |-> last'.timestamp] >> ]_vars

\* a consume that found max_size entries, all of them older than the
\* window, and succeeded
C22_RecoveredFromFull ==
    /\ last.op = "mark_used"
    /\ last.found = MAX_SIZE
    /\ last.timestamp = EARLIEST + RETENTION + 1
    /\ last.err = "Ok"
    /\ Len(used_decisions.decisions) = 1


(***************************************************************************)
(* C23.  The ledger account has room for max_size records: a ledger of     *)
(* max_size records serializes into the space of the account, and a        *)
(* publish fails on writing the ledger back only when the ledger it found  *)
(* was at max_size.                                                        *)
(***************************************************************************)
C23_SpaceForCapacity ==
    (last.op = "update_risk_status" /\ last.err = "AccountDidNotSerialize") =>
        /\ SerializedSize(MAX_SIZE) <= UsedDecisions_SPACE
        /\ Len(used_decisions.decisions) >= MAX_SIZE


(***************************************************************************)
(* C24.  No two entries of the replay ledger carry the same digest.        *)
(***************************************************************************)
C24_DigestsUnique ==
    used_decisions.exists =>
        \A i, j \in 1..Len(used_decisions.decisions) :
            i # j => used_decisions.decisions[i].hash # used_decisions.decisions[j].hash

\* two digests in the ledger and a publish of one of them just refused
C24_ReplayKeptOut ==
    /\ used_decisions.exists
    /\ Len(used_decisions.decisions) = 2
    /\ last.op = "update_risk_status"
    /\ last.err = "DecisionAlreadyUsed"
    /\ is_used(used_decisions, last.req.decision_hash)


\* the record of an asset respects the ranges
RecordInRange(record) ==
    record.exists =>
        /\ record.risk_score <= MAX_RISK_SCORE
        /\ record.confidence_ratio <= MAX_CONFIDENCE_RATIO
        /\ record.last_updated - PAST_TOLERANCE <= record.timestamp
        /\ record.timestamp <= record.last_updated + FUTURE_TOLERANCE

\* the request breaks one of the range checks at the clock it met
BreaksRange(req, current_time) ==
    \/ req.risk_score > MAX_RISK_SCORE
    \/ req.confidence_ratio > MAX_CONFIDENCE_RATIO
    \/ req.timestamp < current_time - PAST_TOLERANCE
    \/ req.timestamp > current_time + FUTURE_TOLERANCE

(***************************************************************************)
(* C25.  Every asset record that exists has a risk score of at most 100,   *)
(* a confidence ratio of at most 10000 and a decision timestamp between    *)
(* 300 before and 60 after its last update; and a publish that breaks one  *)
(* of those ranges fails and leaves every record as it was.                *)
(***************************************************************************)
C25_RecordsInRange ==
    /\ [](\A a \in AssetIdInputs : RecordInRange(asset_risk_status[a]))
    /\ [][ (last'.op = "update_risk_status" /\ BreaksRange(last'.req, now)) =>
              /\ last'.err # "Ok"
              /\ asset_risk_status' = asset_risk_status ]_vars

\* a publish with a risk score of 101 refused over the record an earlier
\* publish left for the asset
C25_OutOfRangeRefused ==
    /\ last.op = "update_risk_status"
    /\ last.req.risk_score > MAX_RISK_SCORE
    /\ last.err = "InvalidRiskScore"
    /\ asset_risk_status[last.req.asset_id].exists
    /\ RecordInRange(asset_risk_status[last.req.asset_id])


(***************************************************************************)
(* C26.  A publish succeeds only if the config is initialized and the      *)
(* caller is its authority; from any other caller it is refused with       *)
(* Unauthorized, whatever it carries, and no account changes.              *)
(***************************************************************************)
C26_PublishOnlyByAuthority ==
    [][ last'.op = "update_risk_status" =>
          /\ last'.err = "Ok" =>
                /\ config.exists
                /\ config.is_initialized
                /\ last'.req.caller = config.authority
          /\ ( /\ config.exists
               /\ config.is_initialized
               /\ last'.req.caller # config.authority )
             => /\ last'.err = "Unauthorized"
                /\ UNCHANGED accounts ]_vars

\* another caller with a decision of the trusted signer, genuinely
\* verified, inside the window and not in the ledger: refused
C26_StrangerRefused ==
    /\ last.op = "update_risk_status"
    /\ last.req.caller = MALLORY
    /\ last.req.tx_kind = "genuine"
    /\ config.exists
    /\ last.req.signer_pubkey = config.trusted_signer
    /\ ~is_used(used_decisions, last.req.decision_hash)
    /\ TimestampInWindow(last.req.timestamp, now)
    /\ last.err = "Unauthorized"


\* update_trusted_signer leaves the authority, the ledger and every asset
\* record as they were
RotationFrame ==
    [][ last'.op = "update_trusted_signer" =>
          /\ UNCHANGED << used_decisions, asset_risk_status >>
          /\ config.exists => /\ config'.authority = config.authority
                              /\ config'.is_initialized = config.is_initialized ]_vars

(***************************************************************************)
(* C27.  update_trusted_signer changes the trusted signer and the nonce    *)
(* alone, so a digest accepted once is still refused as already used       *)
(* after the signer has been rotated twice: a publish of it by the         *)
(* authority, valid, inside the window, from the trusted signer and        *)
(* genuinely verified, gets DecisionAlreadyUsed.                           *)
(***************************************************************************)
C27_RotationKeepsConsumed ==
    [][ /\ last'.op = "update_trusted_signer" =>
              /\ UNCHANGED << used_decisions, asset_risk_status >>
              /\ config.exists => config'.authority = config.authority
        /\ ( /\ last'.op = "update_risk_status"
             /\ rotations >= 2
             /\ last'.req.decision_hash \in accepted
             /\ PassesConstraints(last'.req)
             /\ InputValid(last'.req)
             /\ InWindow(last'.req, now)
             /\ last'.req.signer_pubkey = config.trusted_signer
             /\ last'.req.tx_kind = "genuine" )
           => last'.err = "DecisionAlreadyUsed" ]_vars

=============================================================================
